---------------------------- MODULE Spec2Model ----------------------------
(***************************************************************************)
(* Model of lib/octopus_spain.py: the OctopusSpain session object, its     *)
(* operations login, accounts, account and current_consumption, and the    *)
(* arithmetic they perform (binary64 floats, datetime/timedelta).          *)
(***************************************************************************)
EXTENDS Integers, Sequences, FiniteSets, TLC

(***************************************************************************)
(* Python float arithmetic (IEEE-754 binary64, round to nearest even).     *)
(* A float is [neg |-> BOOLEAN, bits |-> set of exponents]; its value is   *)
(* the sum of 2^e over e in bits, negated when neg.  Zero is the empty     *)
(* set.  The exponent range of the values met here is far from the         *)
(* subnormal and overflow ranges, which are not modelled.                  *)
(***************************************************************************)
MantissaBits == 53

Pow2(n) == 2 ^ n

MaxOf(S) == CHOOSE x \in S : \A y \in S : y <= x

\* the same set, enumerated
Enum(S) == {e : e \in S}

MinOf(S) == CHOOSE x \in S : \A y \in S : x <= y

\* carry into position i when adding magnitudes A and B
Carry(A, B, i) ==
    \E j \in A \cap B : j < i /\ \A m \in (j + 1)..(i - 1) : m \in A \cup B

\* A + B
MagAdd(A, B) ==
    IF A = {} THEN B
    ELSE IF B = {} THEN A
    ELSE LET U == A \cup B
         IN  Enum({i \in MinOf(U)..(MaxOf(U) + 1) :
                     ((i \in A) # (i \in B)) # Carry(A, B, i)})

\* borrow from position i when subtracting B from A
Borrow(A, B, i) ==
    \E j \in B \ A : j < i /\ \A m \in (j + 1)..(i - 1) : (m \in A) = (m \in B)

\* A - B for A >= B
MagSub(A, B) ==
    IF B = {} THEN A
    ELSE LET U == A \cup B
         IN  Enum({i \in MinOf(U)..MaxOf(U) :
                     ((i \in A) # (i \in B)) # Borrow(A, B, i)})

MagLess(A, B) ==
    /\ A # B
    /\ MaxOf((A \ B) \cup (B \ A)) \in B

\* round an exact magnitude (plus a sticky flag for discarded lower bits)
\* to MantissaBits significant bits, ties to even
Round53(S, sticky) ==
    IF S = {} THEN {}
    ELSE LET lsb  == MaxOf(S) - (MantissaBits - 1)
             keep == Enum({e \in S : e >= lsb})
             half == (lsb - 1) \in S
             rest == sticky \/ (\E e \in S : e < lsb - 1)
             up   == half /\ (rest \/ lsb \in S)
         IN  IF up THEN MagAdd(keep, {lsb}) ELSE keep

FZero == [neg |-> FALSE, bits |-> {}]

MkFloat(neg, bits) == [neg |-> (neg /\ bits # {}), bits |-> bits]

\* float(n) for a JSON integer n (exact below 2^53)
IntToMag(n) == Enum({i \in 0..30 : (n \div Pow2(i)) % 2 = 1})

FromInt(n) == IF n < 0 THEN MkFloat(TRUE, IntToMag(0 - n))
              ELSE MkFloat(FALSE, IntToMag(n))

\* x + y
FAdd(x, y) ==
    IF x.neg = y.neg
    THEN MkFloat(x.neg, Round53(MagAdd(x.bits, y.bits), FALSE))
    ELSE IF x.bits = y.bits THEN FZero
    ELSE IF MagLess(x.bits, y.bits)
         THEN MkFloat(y.neg, Round53(MagSub(y.bits, x.bits), FALSE))
         ELSE MkFloat(x.neg, Round53(MagSub(x.bits, y.bits), FALSE))

\* the integer a magnitude without fractional bits stands for
RECURSIVE MagToInt(_)
MagToInt(S) ==
    IF S = {} THEN 0
    ELSE LET k == MaxOf(S) IN Pow2(k) + MagToInt(S \ {k})

\* 2^k mod d for 0 <= k < 80 and d <= 1000
Pow2Mod(k, d) == ((((Pow2(20) % d) ^ (k \div 20)) % d) * (Pow2(k % 20) % d)) % d

\* remainder of the long division of r by d after k binary places
DivRem(r, k, d) == (r * Pow2Mod(k, d)) % d

DivDepth == MantissaBits + 12

\* x / d for a float x holding an integer and d in {100, 1000}: the
\* quotient's binary expansion by long division, rounded once
FDiv(x, d) ==
    LET n      == MagToInt(x.bits)
        r      == n % d
        frac   == {0 - k : k \in {j \in 1..DivDepth : 2 * DivRem(r, j - 1, d) >= d}}
        sticky == DivRem(r, DivDepth, d) # 0
    IN  MkFloat(x.neg, Round53(IntToMag(n \div d) \cup frac, sticky))


(***************************************************************************)
(* datetime: fromisoformat, strptime, + timedelta, .date() and the         *)
(* comparison of dates.  A datetime is [y, m, d, hh, mi, ss]; a date is    *)
(* <<y, m, d>>.  A date string as the provider sends it is                 *)
(* [fmt, y, m, d, hh, mi, ss] with fmt "datetime" (it holds a "T"),        *)
(* "date" (YYYY-MM-DD) or "garbage" (no parser accepts it).                *)
(***************************************************************************)
None == "None"

\* the outcome of an expression that may raise
Ok(v) == [ok |-> TRUE, v |-> v]

Err(e) == [ok |-> FALSE, v |-> e]

IsLeap(y) == y % 4 = 0 /\ (y % 100 # 0 \/ y % 400 = 0)

DaysInMonthTable == <<31, 28, 31, 30, 31, 30, 31, 31, 30, 31, 30, 31>>

DaysBeforeMonthTable == <<0, 31, 59, 90, 120, 151, 181, 212, 243, 273, 304, 334>>

DaysBeforeMonth(y, m) ==
    DaysBeforeMonthTable[m] + (IF m > 2 /\ IsLeap(y) THEN 1 ELSE 0)

DaysBeforeYear(y) ==
    LET y1 == y - 1 IN y1 * 365 + (y1 \div 4) - (y1 \div 100) + (y1 \div 400)

\* date.toordinal()
YmdToOrd(y, m, d) == DaysBeforeYear(y) + DaysBeforeMonth(y, m) + d

\* date.fromordinal(n)
OrdToYmd(n) ==
    LET n0   == n - 1
        n400 == n0 \div 146097
        r400 == n0 % 146097
        n100 == r400 \div 36524
        r100 == r400 % 36524
        n4   == r100 \div 1461
        r4   == r100 % 1461
        n1   == r4 \div 365
        r1   == r4 % 365
        year == n400 * 400 + 1 + n100 * 100 + n4 * 4 + n1
        leap == n1 = 3 /\ (n4 # 24 \/ n100 = 3)
        mon0 == (r1 + 50) \div 32
        pre0 == DaysBeforeMonthTable[mon0] + (IF mon0 > 2 /\ leap THEN 1 ELSE 0)
        back == pre0 > r1
        mon  == IF back THEN mon0 - 1 ELSE mon0
        pre  == IF back
                THEN pre0 - (DaysInMonthTable[mon] + (IF mon = 2 /\ leap THEN 1 ELSE 0))
                ELSE pre0
    IN  IF n1 = 4 \/ n100 = 4 THEN <<year - 1, 12, 31>>
        ELSE <<year, mon, r1 - pre + 1>>

\* datetime.fromisoformat(s)
FromIsoFormat(s) ==
    IF s.fmt \in {"datetime", "date"}
    THEN Ok([y |-> s.y, m |-> s.m, d |-> s.d, hh |-> s.hh, mi |-> s.mi, ss |-> s.ss])
    ELSE Err("ValueError")

\* datetime.strptime(s, "%Y-%m-%d")
StrpTimeYmd(s) ==
    IF s.fmt = "date"
    THEN Ok([y |-> s.y, m |-> s.m, d |-> s.d, hh |-> 0, mi |-> 0, ss |-> 0])
    ELSE Err("ValueError")

\* dt + timedelta(seconds = delta)
AddSeconds(dt, delta) ==
    LET secs == dt.hh * 3600 + dt.mi * 60 + dt.ss + delta
        days == YmdToOrd(dt.y, dt.m, dt.d) + (secs \div 86400)
        rem  == secs % 86400
        ymd  == OrdToYmd(days)
    IN  [y |-> ymd[1], m |-> ymd[2], d |-> ymd[3],
         hh |-> rem \div 3600, mi |-> (rem % 3600) \div 60, ss |-> rem % 60]

\* dt.date()
DateOf(dt) == <<dt.y, dt.m, dt.d>>

\* a >= b on dates
DateGE(a, b) ==
    \/ a[1] > b[1]
    \/ a[1] = b[1] /\ a[2] > b[2]
    \/ a[1] = b[1] /\ a[2] = b[2] /\ a[3] >= b[3]

DateStr(y, m, d) ==
    [fmt |-> "date", y |-> y, m |-> m, d |-> d, hh |-> 0, mi |-> 0, ss |-> 0]

DateTimeStr(y, m, d, hh, mi, ss) ==
    [fmt |-> "datetime", y |-> y, m |-> m, d |-> d, hh |-> hh, mi |-> mi, ss |-> ss]

GarbageStr ==
    [fmt |-> "garbage", y |-> 0, m |-> 0, d |-> 0, hh |-> 0, mi |-> 0, ss |-> 0]

\* a JSON null where a date string is expected
NullStr ==
    [fmt |-> "null", y |-> 0, m |-> 0, d |-> 0, hh |-> 0, mi |-> 0, ss |-> 0]


(***************************************************************************)
(* Bounds of the model and the values the transport may deliver.           *)
(***************************************************************************)
\* supply points (properties) of an account
MaxPoints == 2

\* records of one supply point's monthlyConsumptions list
MaxMonths == 2

\* ledgers of an account
MaxLedgers == 2

SeqsUpTo(S, n) == UNION {[1..k -> S] : k \in 0..n}

Tokens == {"jwt-A", "jwt-B"}

SOLAR_WALLET_LEDGER == "SOLAR_WALLET_LEDGER"

ELECTRICITY_LEDGER == "SPAIN_ELECTRICITY_LEDGER"

types_to_inspect ==
    <<"SIPSElectricityData", "SIPSElectricityMonthlyConsumption", "Measurement",
      "MeasurementType", "Reading">>

\* JSON scalars as the provider may send them
JInt(n) == [t |-> "int", v |-> n]

JNull == [t |-> "null", v |-> 0]

\* a string that is not a number
JText == [t |-> "text", v |-> 0]

\* results of client.execute_async: kind "raise" is a transport failure,
\* "errors" a result with an errors key, "nodata" a result with neither
\* errors nor data, "data" a result with data
Resp(kind, body) == [kind |-> kind, body |-> body]

LoginResponses ==
    {Resp("raise", None), Resp("errors", None), Resp("nodata", None)}
        \cup {Resp("data", t) : t \in Tokens}

InspectResponses == {"raise", "nodata", "nulltype", "data"}

AccountNumbers == <<"A-0001", "A-0002">>

AccountsResponses ==
    {Resp("raise", <<>>), Resp("errors", <<>>), Resp("nodata", <<>>)}
        \cup {Resp("data", SubSeq(AccountNumbers, 1, k)) : k \in 0..2}

\* statementsWithDetails nodes
Invoice(amount, issued, cstart, cend) ==
    [amount |-> amount, issuedDate |-> issued,
     consumptionStartDate |-> cstart, consumptionEndDate |-> cend]

Invoices ==
    { Invoice(JInt(4520), DateStr(2024, 2, 5),
              DateTimeStr(2024, 1, 1, 0, 0, 0), DateTimeStr(2024, 2, 1, 0, 0, 0)),
      Invoice(JNull, DateStr(2024, 2, 5),
              DateTimeStr(2024, 1, 1, 23, 0, 0), DateTimeStr(2024, 1, 31, 23, 59, 59)),
      Invoice(JInt(0), DateTimeStr(2024, 1, 3, 9, 30, 0),
              DateTimeStr(2023, 12, 31, 22, 0, 0), DateTimeStr(2024, 1, 1, 0, 0, 0)),
      Invoice(JInt(1999), DateStr(2024, 3, 4),
              DateTimeStr(2024, 2, 28, 21, 59, 59), DateTimeStr(2024, 3, 1, 0, 0, 0)),
      Invoice(JInt(1999), DateStr(2023, 3, 4),
              DateTimeStr(2023, 2, 28, 23, 30, 0), DateTimeStr(2023, 3, 1, 0, 0, 1)),
      Invoice(JInt(310), DateStr(2024, 6, 3),
              DateStr(2024, 5, 1), DateStr(2024, 6, 1)) }

LedgerTags == {"E", "S", "O"}

\* the ledger a tag stands for; edges holds at most the latest statement
Ledger(tag, edges) ==
    CASE tag = "E" -> [ledgerType |-> ELECTRICITY_LEDGER, balance |-> JInt(0 - 2310),
                       edges |-> edges]
      [] tag = "S" -> [ledgerType |-> SOLAR_WALLET_LEDGER, balance |-> JInt(1250),
                       edges |-> <<>>]
      [] OTHER     -> [ledgerType |-> "SPAIN_GAS_LEDGER", balance |-> JInt(75),
                       edges |-> <<>>]

LedgerLists ==
    { [i \in DOMAIN sh |-> Ledger(sh[i], e)] :
        sh \in SeqsUpTo(LedgerTags, MaxLedgers),
        e \in {<<>>} \cup {<<inv>> : inv \in Invoices} }

AccountResponses ==
    {Resp("raise", <<>>), Resp("nodata", <<>>)}
        \cup {Resp("data", ls) : ls \in LedgerLists}

\* properties of the account listing: a property with one supply point,
\* one without the electricitySupplyPoints key, one whose supply point has
\* no cups key, and one that is not a mapping
PropertyShapes == {"point", "nopoints", "nocups", "malformed"}

CupsResponses ==
    {Resp("raise", <<>>), Resp("errors", <<>>), Resp("nodata", <<>>),
     Resp("accountnull", <<>>)}
        \cup {Resp("data", ps) : ps \in SeqsUpTo(PropertyShapes, MaxPoints)}

\* results of the sipsData query of one supply point
SipsResponses ==
    {"raise", "errors", "nodata", "datanull", "sipsnull", "nomonthly",
     "monthlynull", "series"}

MonthData(endDate, p1, p2, p3) ==
    [endDate |-> endDate, activeEnergyConsumptionWhP1 |-> p1,
     activeEnergyConsumptionWhP2 |-> p2, activeEnergyConsumptionWhP3 |-> p3]

\* the monthlyConsumptions records the provider may send, by name
Months ==
    [ M100      |-> MonthData(DateStr(2024, 3, 31), JInt(100), JNull, JInt(0)),
      M1000     |-> MonthData(DateTimeStr(2024, 4, 30, 0, 0, 0),
                              JInt(400), JInt(300), JInt(300)),
      M3000     |-> MonthData(DateStr(2024, 5, 31), JInt(3000), JInt(0), JInt(0)),
      MNeg      |-> MonthData(DateStr(2024, 6, 30), JInt(0 - 5000), JInt(0), JInt(0)),
      MBadDate  |-> MonthData(GarbageStr, JInt(700), JInt(0), JInt(0)),
      MBadValue |-> MonthData(DateStr(2024, 7, 31), JInt(700), JText, JInt(0)),
      MNoEnd    |-> MonthData(NullStr, JInt(700), JInt(0), JInt(0)) ]

MonthKinds == DOMAIN Months

\* the start argument of current_consumption
Starts ==
    { [y |-> 2024, m |-> 3, d |-> 31, hh |-> 10, mi |-> 0, ss |-> 0],
      [y |-> 2024, m |-> 4, d |-> 15, hh |-> 0, mi |-> 0, ss |-> 0] }

NoDate == <<0, 0, 0>>

(***************************************************************************)
(* The session object and the coroutine running on it.                     *)
(***************************************************************************)
VARIABLES
    token,              \* self._token
    schema_logged,      \* self._schema_logged
    pc,                 \* where the running operation stands; "idle" between calls
    ret,                \* how the latest operation ended: [op, kind, value]
    calls,              \* transport calls issued by the latest operation
    resp,               \* what the first transport call of that operation delivered
    start_date,         \* current_consumption: start.date()
    meter_ids,          \* current_consumption: the supply points still to visit
    total_consumption,  \* current_consumption: the running total
    point_resp,         \* what the sipsData call of the current supply point delivered
    base,               \* the total when the current supply point was entered
    series              \* the records of the current supply point read so far

vars == <<token, schema_logged, pc, ret, calls, resp, start_date, meter_ids,
          total_consumption, point_resp, base, series>>

ccVars == <<start_date, meter_ids, total_consumption, point_resp, base, series>>

Returned(op, v) == [op |-> op, kind |-> "return", value |-> v]

Raised(op, e) == [op |-> op, kind |-> "raise", value |-> e]

Pending(op) == [op |-> op, kind |-> "pending", value |-> None]

Init ==
    /\ token = None
    /\ schema_logged = FALSE
    /\ pc = "idle"
    /\ ret = [op |-> "init", kind |-> "return", value |-> None]
    /\ calls = 0
    /\ resp = Resp("none", None)
    /\ start_date = NoDate
    /\ meter_ids = <<>>
    /\ total_consumption = FZero
    /\ point_resp = "none"
    /\ base = FZero
    /\ series = <<>>

(***************************************************************************)
(* login                                                                   *)
(***************************************************************************)
\* a login that assigns the token before it looks at the result
TokenAfterLoginUnchecked(r, tok) == IF r.kind = "data" THEN r.body ELSE None

\* self._token after the credential exchange delivered r
TokenAfterLogin(r, tok) == IF r.kind = "data" THEN r.body ELSE tok

\* how login ends once the credential exchange delivered r
LoginEnds(r) ==
    CASE r.kind = "raise"  -> Raised("login", "TransportError")
      [] r.kind = "errors" -> Returned("login", FALSE)
      [] r.kind = "nodata" -> Raised("login", "KeyError")
      [] OTHER             -> Returned("login", TRUE)

\* a login that forgets the _schema_logged guard
NeedsInspectionUnguarded(r, logged) == r.kind = "data"

\* whether login goes on to _log_schema_debug_info
NeedsInspection(r, logged) == r.kind = "data" /\ ~logged

\* the transport calls of _log_schema_debug_info
NumInspectCalls == 1 + Len(types_to_inspect)

\* what _log_schema_debug_info does with the result of one of its calls
InspectHandled(o) ==
    CASE o = "raise" -> "caught"
      [] o = "data"  -> "logged fields"
      [] OTHER       -> "logged not found"

Login ==
    /\ pc = "idle"
    /\ \E r \in LoginResponses :
        /\ resp' = r
        /\ calls' = 1
        /\ token' = TokenAfterLogin(r, token)
        /\ IF NeedsInspection(r, schema_logged)
           THEN pc' = "login_inspect" /\ ret' = Pending("login")
           ELSE pc' = "idle" /\ ret' = LoginEnds(r)
    /\ UNCHANGED <<schema_logged, ccVars>>

LoginInspect ==
    /\ pc = "login_inspect"
    /\ \E o \in InspectResponses :
        /\ InspectHandled(o) \in {"caught", "logged fields", "logged not found"}
        /\ calls' = calls + 1
        /\ IF calls' = 1 + NumInspectCalls
           THEN /\ schema_logged' = TRUE
                /\ pc' = "idle"
                /\ ret' = Returned("login", TRUE)
           ELSE UNCHANGED <<schema_logged, pc, ret>>
    /\ UNCHANGED <<token, resp, ccVars>>

(***************************************************************************)
(* accounts                                                                *)
(***************************************************************************)
AccountsResult(r) ==
    CASE r.kind = "raise" -> Raised("accounts", "TransportError")
      [] r.kind = "data"  -> Returned("accounts", r.body)
      [] OTHER            -> Raised("accounts", "KeyError")

Accounts ==
    /\ pc = "idle"
    /\ \E r \in AccountsResponses :
        /\ resp' = r
        /\ calls' = 1
        /\ ret' = AccountsResult(r)
    /\ UNCHANGED <<token, schema_logged, pc, ccVars>>

(***************************************************************************)
(* account                                                                 *)
(***************************************************************************)
NoLedger == [ledgerType |-> "none", balance |-> JNull, edges |-> <<>>]

\* next(filter(lambda x: x['ledgerType'] == type, ledgers), default)
FindLedger(ledgers, type, default) ==
    LET hits == {i \in DOMAIN ledgers : ledgers[i].ledgerType = type}
    IN  IF hits = {} THEN default ELSE ledgers[MinOf(hits)]

SolarWallet(ledgers) ==
    FindLedger(ledgers, SOLAR_WALLET_LEDGER,
               [ledgerType |-> "default", balance |-> JInt(0), edges |-> <<>>])

\* a lookup that takes the first ledger, whatever its type
ElectricityFirst(ledgers) == IF ledgers = <<>> THEN NoLedger ELSE ledgers[1]

Electricity(ledgers) == FindLedger(ledgers, ELECTRICITY_LEDGER, NoLedger)

\* float(balance) / 100
Balance(ledger) == FDiv(FromInt(ledger.balance.v), 100)

\* a start date without the offset
InvoiceStartUnshifted(s) == DateOf(FromIsoFormat(s).v)

\* (datetime.fromisoformat(s) + timedelta(hours=2)).date()
InvoiceStart(s) == DateOf(AddSeconds(FromIsoFormat(s).v, 2 * 3600))

\* (datetime.fromisoformat(s) - timedelta(seconds=1)).date()
InvoiceEnd(s) == DateOf(AddSeconds(FromIsoFormat(s).v, 0 - 1))

\* invoice["amount"] if invoice["amount"] else 0
InvoiceAmount(a) == IF a.t = "int" /\ a.v # 0 THEN a ELSE JInt(0)

Report(solar, electricity) ==
    [solar_wallet   |-> Balance(solar),
     octopus_credit |-> Balance(electricity),
     last_invoice   |->
        IF Len(electricity.edges) = 0
        THEN [amount |-> JNull, issued |-> NoDate, start |-> NoDate, end |-> NoDate]
        ELSE LET invoice == electricity.edges[1]
             IN  [amount |-> InvoiceAmount(invoice.amount),
                  issued |-> DateOf(FromIsoFormat(invoice.issuedDate).v),
                  start  |-> InvoiceStart(invoice.consumptionStartDate),
                  end    |-> InvoiceEnd(invoice.consumptionEndDate)]]

AccountResult(r) ==
    CASE r.kind = "raise"  -> Raised("account", "TransportError")
      [] r.kind = "nodata" -> Raised("account", "KeyError")
      [] OTHER ->
          IF Electricity(r.body) = NoLedger
          THEN Raised("account", "Electricity ledger not found")
          ELSE Returned("account", Report(SolarWallet(r.body), Electricity(r.body)))

Account ==
    /\ pc = "idle"
    /\ \E r \in AccountResponses :
        /\ resp' = r
        /\ calls' = 1
        /\ ret' = AccountResult(r)
    /\ UNCHANGED <<token, schema_logged, pc, ccVars>>

(***************************************************************************)
(* current_consumption                                                     *)
(***************************************************************************)
\* the cups of the supply point of the i-th property
CupsId(i) == <<"ES0021", i>>

\* the loop collecting meter_ids, from the i-th property on; a property
\* that is not a mapping raises, which ends the loop with what was collected
RECURSIVE CupsFrom(_, _)
CupsFrom(props, i) ==
    IF i > Len(props) THEN <<>>
    ELSE CASE props[i] = "malformed" -> <<>>
           [] props[i] = "point"     -> <<CupsId(i)>> \o CupsFrom(props, i + 1)
           [] OTHER                  -> CupsFrom(props, i + 1)

MeterIds(r) == IF r.kind = "data" THEN CupsFrom(r.body, 1) ELSE <<>>

\* a listing call outside any try block
CupsFetchUncaught(r) ==
    CASE r.kind = "raise"  -> "propagate"
      [] r.kind = "errors" -> "return"
      [] OTHER             -> "parse"

\* what the listing call leads to: "return" (0 is returned at once),
\* "propagate" (the failure leaves current_consumption) or "parse"
CupsFetch(r) ==
    CASE r.kind = "raise"  -> "return"
      [] r.kind = "errors" -> "return"
      [] OTHER             -> "parse"

CCClear ==
    /\ start_date' = NoDate
    /\ meter_ids' = <<>>
    /\ total_consumption' = FZero
    /\ point_resp' = "none"
    /\ base' = FZero
    /\ series' = <<>>

CCBegin ==
    /\ pc = "idle"
    /\ \E st \in Starts, r \in CupsResponses :
        /\ resp' = r
        /\ calls' = 1
        /\ CASE CupsFetch(r) = "propagate" ->
                  /\ ret' = Raised("current_consumption", "TransportError")
                  /\ pc' = "idle"
                  /\ CCClear
             [] CupsFetch(r) = "return" \/ MeterIds(r) = <<>> ->
                  /\ ret' = Returned("current_consumption", FZero)
                  /\ pc' = "idle"
                  /\ CCClear
             [] OTHER ->
                  /\ ret' = Pending("current_consumption")
                  /\ pc' = "cc_points"
                  /\ start_date' = DateOf(st)
                  /\ meter_ids' = MeterIds(r)
                  /\ total_consumption' = FZero
                  /\ point_resp' = "none"
                  /\ base' = FZero
                  /\ series' = <<>>
    /\ UNCHANGED <<token, schema_logged>>

\* what the body of the for loop does with the sipsData result o:
\* "iterate" over monthlyConsumptions, or leave the supply point
PointOutcome(o) ==
    CASE o = "series" -> "iterate"
      [] o = "errors" -> "continue"
      [] o \in {"raise", "datanull", "monthlynull"} -> "caught"
      [] OTHER -> "skipped"

\* a loop that a transport failure ends
RestAfterAbort(ids, o) == IF o = "raise" THEN <<>> ELSE Tail(ids)

\* the supply points left once the one at the head is done with result o
RestAfter(ids, o) == Tail(ids)

CCFetch ==
    /\ pc = "cc_points"
    /\ meter_ids # <<>>
    /\ \E o \in SipsResponses :
        /\ point_resp' = o
        /\ calls' = calls + 1
        /\ base' = total_consumption
        /\ series' = <<>>
        /\ IF PointOutcome(o) = "iterate"
           THEN pc' = "cc_months" /\ UNCHANGED meter_ids
           ELSE pc' = "cc_points" /\ meter_ids' = RestAfter(meter_ids, o)
    /\ UNCHANGED <<token, schema_logged, ret, resp, start_date, total_consumption>>

\* float(x or 0)
ToFloat(j) ==
    CASE j.t = "null" -> Ok(FZero)
      [] j.t = "int"  -> Ok(FromInt(j.v))
      [] OTHER        -> Err("ValueError")

\* the date of the record's endDate
MonthEnd(s) ==
    LET dt == IF s.fmt = "datetime" THEN FromIsoFormat(s) ELSE StrpTimeYmd(s)
    IN  IF dt.ok THEN Ok(DateOf(dt.v)) ELSE dt

\* a window that leaves out the start date itself
InWindowStrict(month_end, sd) == DateGE(month_end, sd) /\ month_end # sd

\* month_end >= start.date()
InWindow(month_end, sd) == DateGE(month_end, sd)

\* total_wh / 1000.0
ToKWh(total_wh) == FDiv(total_wh, 1000)

\* the running total after the body of the inner loop ran on month_data
MonthStep(total, month_data, sd) ==
    LET end_date_str == month_data.endDate
        month_end    == MonthEnd(end_date_str)
        p1           == ToFloat(month_data.activeEnergyConsumptionWhP1)
        p2           == ToFloat(month_data.activeEnergyConsumptionWhP2)
        p3           == ToFloat(month_data.activeEnergyConsumptionWhP3)
    IN  IF end_date_str.fmt = "null" THEN total
        ELSE IF ~month_end.ok THEN total
        ELSE IF ~InWindow(month_end.v, sd) THEN total
        ELSE IF ~(p1.ok /\ p2.ok /\ p3.ok) THEN total
        ELSE FAdd(total, ToKWh(FAdd(FAdd(p1.v, p2.v), p3.v)))

CCMonth ==
    /\ pc = "cc_months"
    /\ Len(series) < MaxMonths
    /\ \E k \in MonthKinds :
        /\ series' = Append(series, k)
        /\ total_consumption' = MonthStep(total_consumption, Months[k], start_date)
    /\ UNCHANGED <<token, schema_logged, pc, ret, calls, resp, start_date,
                   meter_ids, point_resp, base>>

CCEndSeries ==
    /\ pc = "cc_months"
    /\ pc' = "cc_points"
    /\ meter_ids' = RestAfter(meter_ids, point_resp)
    /\ UNCHANGED <<token, schema_logged, ret, calls, resp, start_date,
                   total_consumption, point_resp, base, series>>

CCReturn ==
    /\ pc = "cc_points"
    /\ meter_ids = <<>>
    /\ pc' = "idle"
    /\ ret' = Returned("current_consumption", total_consumption)
    /\ CCClear
    /\ UNCHANGED <<token, schema_logged, calls, resp>>

Next ==
    \/ Login
    \/ LoginInspect
    \/ Accounts
    \/ Account
    \/ CCBegin
    \/ CCFetch
    \/ CCMonth
    \/ CCEndSeries
    \/ CCReturn

Spec == Init /\ [][Next]_vars

(***************************************************************************)
(* Properties                                                              *)
(***************************************************************************)
\* a step in which login issues the credential exchange
LoginExchangeStep == pc = "idle" /\ ret'.op = "login" /\ calls' = 1

\* a step in which login issues a call of _log_schema_debug_info
LoginInspectStep == pc = "login_inspect"

\* C1: whenever the credential exchange fails (a result with an errors key,
\* or the transport call itself fails), login returns False, raises
\* nothing and does not set the token.
C1_FailedLoginReturnsFalse ==
    [][(LoginExchangeStep /\ resp'.kind \in {"errors", "raise"})
          => /\ ret'.kind = "return"
             /\ ret'.value = FALSE
             /\ token' = token]_vars

\* C2 as stated: the token is absent until a login succeeds, and once it
\* is set its value never changes again.
C2_TokenNeverChangesOnceSet ==
    token = None
    /\ [][/\ (token = None /\ token' # None)
                => (LoginExchangeStep /\ resp'.kind = "data")
          /\ token # None => token' = token]_vars

\* C2 amended: the token is absent until a login succeeds; only a
\* successful login changes it (to the token that login received), so that
\* accounts, account, current_consumption and a failed login leave it as it
\* is, and once set it is never absent again.
C2_TokenChangesOnlyOnSuccessfulLogin ==
    token = None
    /\ [][/\ token' # token
                => (LoginExchangeStep /\ resp'.kind = "data" /\ token' = resp'.body)
          /\ token # None => token' # None]_vars

C2_Witness ==
    /\ token \in Tokens
    /\ pc = "idle"
    /\ ret.op = "current_consumption"
    /\ ret.kind = "return"

IsNumber(v) == v \in [neg : BOOLEAN, bits : SUBSET (0 - 1100 .. 1100)]

\* C4: whatever the listing call and the per-supply-point calls deliver,
\* current_consumption ends by returning a number and never by raising;
\* when the listing call raises or delivers errors, the number is 0.
C4_AlwaysReturnsANumber ==
    (pc = "idle" /\ ret.op = "current_consumption")
        => /\ ret.kind = "return"
           /\ IsNumber(ret.value)
           /\ resp.kind \in {"raise", "errors"} => ret.value = FZero

C4_Witness ==
    /\ pc = "idle"
    /\ ret = Returned("current_consumption", FZero)
    /\ resp.kind = "raise"

\* what the provider's records say, read off the records themselves
EndDateOf(k) == LET e == Months[k].endDate IN <<e.y, e.m, e.d>>

WhOf(k) ==
    LET r == Months[k]
    IN  r.activeEnergyConsumptionWhP1.v + r.activeEnergyConsumptionWhP2.v
            + r.activeEnergyConsumptionWhP3.v

\* records whose end date or values cannot be parsed
Unparsable(k) ==
    \/ Months[k].endDate.fmt = "garbage"
    \/ \E f \in {"activeEnergyConsumptionWhP1", "activeEnergyConsumptionWhP2",
                 "activeEnergyConsumptionWhP3"} : Months[k][f].t = "text"

Dated(k) == Months[k].endDate.fmt \in {"date", "datetime"}

\* a supply point whose processing met a transport or parsing failure
PointFailed ==
    \/ point_resp \in {"raise", "errors", "datanull", "monthlynull"}
    \/ point_resp = "series" /\ \E i \in DOMAIN series : Unparsable(series[i])

\* C5 as stated: any transport or parsing failure while processing a supply
\* point makes that supply point contribute exactly zero.
C5_FailedPointContributesZero ==
    (pc = "cc_points" /\ PointFailed) => total_consumption = base

\* the step that leaves a supply point whose sipsData call gave no series
PointDroppedStep ==
    pc = "cc_points" /\ pc' = "cc_points" /\ calls' = calls + 1

\* the step of the inner loop on a record that cannot be parsed
BadRecordStep ==
    pc = "cc_months" /\ Len(series') = Len(series) + 1
        /\ Unparsable(series'[Len(series')])

\* the step that leaves a supply point whose series was empty
EmptySeriesStep == pc = "cc_months" /\ pc' = "cc_points" /\ series = <<>>

\* C5 amended: a supply point whose sipsData call fails, or whose result
\* cannot be read, contributes exactly zero; a record that cannot be parsed
\* contributes zero itself while the other records of its supply point
\* still count; in both cases the total, the window and the supply points
\* still to visit are what they would be had the failing item been absent.
\* A supply point with an empty series contributes 0 and its siblings are
\* still visited.
C5_FailuresAreIsolated ==
    [][/\ PointDroppedStep
            => /\ total_consumption' = total_consumption
               /\ meter_ids' = Tail(meter_ids)
               /\ start_date' = start_date
               /\ ret' = ret
       /\ BadRecordStep
            => /\ total_consumption' = total_consumption
               /\ meter_ids' = meter_ids
               /\ start_date' = start_date
               /\ pc' = "cc_months"
       /\ EmptySeriesStep
            => /\ total_consumption' = base
               /\ meter_ids' = Tail(meter_ids)
               /\ start_date' = start_date
               /\ ret' = ret]_vars

C5_Witness ==
    /\ pc = "cc_points"
    /\ point_resp = "raise"
    /\ total_consumption # FZero
    /\ Len(meter_ids) = 0
    /\ calls = 3

\* C6: the total current_consumption returns is never negative.
C6_TotalNeverNegative ==
    (pc = "idle" /\ ret.op = "current_consumption" /\ ret.kind = "return")
        => ~ret.value.neg

\* the records of the series that lie in the window and can be parsed
Counted(k) == Dated(k) /\ ~Unparsable(k) /\ DateGE(EndDateOf(k), start_date)

\* the record of the series that is first (last) in time
FirstInTime(s) ==
    s[CHOOSE i \in DOMAIN s : \A j \in DOMAIN s : DateGE(EndDateOf(s[j]), EndDateOf(s[i]))]

LastInTime(s) ==
    s[CHOOSE i \in DOMAIN s : \A j \in DOMAIN s : DateGE(EndDateOf(s[i]), EndDateOf(s[j]))]

RECURSIVE SumOfRecords(_, _, _)
SumOfRecords(acc, s, i) ==
    IF i > Len(s) THEN acc
    ELSE SumOfRecords(IF Counted(s[i])
                      THEN FAdd(acc, FDiv(FromInt(WhOf(s[i])), 1000))
                      ELSE acc,
                      s, i + 1)

Orderings(s) ==
    { [i \in DOMAIN s |-> s[f[i]]] :
        f \in {g \in [DOMAIN s -> DOMAIN s] : \A i, j \in DOMAIN s : i # j => g[i] # g[j]} }

Chronological(s) ==
    \A i, j \in DOMAIN s : i < j => DateGE(EndDateOf(s[j]), EndDateOf(s[i]))

\* the total the code reaches from acc on the records s[i..]
RECURSIVE RunSeries(_, _, _)
RunSeries(acc, s, i) ==
    IF i > Len(s) THEN acc
    ELSE RunSeries(MonthStep(acc, Months[s[i]], start_date), s, i + 1)

\* C8: whatever the order in which the records of a supply point arrive,
\* the total is the one reached on the same records in chronological order.
C8_OrderOfRecordsIsIrrelevant ==
    (/\ pc = "cc_points"
     /\ point_resp = "series"
     /\ \A i \in DOMAIN series : Dated(series[i]))
        => \A p \in Orderings(series) :
              Chronological(p) => total_consumption = RunSeries(base, p, 1)

\* the ledger types of the account, and the statement the report is about
LedgerTypes(ledgers) == {ledgers[i].ledgerType : i \in DOMAIN ledgers}

\* C9: an account without a SPAIN_ELECTRICITY_LEDGER ledger makes account
\* fail with "Electricity ledger not found", whether or not it has a
\* SOLAR_WALLET_LEDGER; with the electricity ledger and without the solar
\* wallet ledger, account returns a report whose solar wallet balance is 0.
C9_LedgerLookup ==
    (pc = "idle" /\ ret.op = "account" /\ resp.kind = "data")
        => /\ ELECTRICITY_LEDGER \notin LedgerTypes(resp.body)
                => ret = Raised("account", "Electricity ledger not found")
           /\ (/\ ELECTRICITY_LEDGER \in LedgerTypes(resp.body)
               /\ SOLAR_WALLET_LEDGER \notin LedgerTypes(resp.body))
                => (ret.kind = "return" /\ ret.value.solar_wallet = FZero)

C9_Witness ==
    /\ pc = "idle"
    /\ ret = Raised("account", "Electricity ledger not found")
    /\ resp.kind = "data"
    /\ SOLAR_WALLET_LEDGER \in LedgerTypes(resp.body)

\* the calendar, by the rule of the months
MonthLength(y, m) ==
    IF m \in {4, 6, 9, 11} THEN 30
    ELSE IF m # 2 THEN 31
    ELSE IF (y % 4 = 0 /\ y % 100 # 0) \/ y % 400 = 0 THEN 29 ELSE 28

NextDay(t) ==
    IF t[3] < MonthLength(t[1], t[2]) THEN <<t[1], t[2], t[3] + 1>>
    ELSE IF t[2] < 12 THEN <<t[1], t[2] + 1, 1>>
    ELSE <<t[1] + 1, 1, 1>>

PrevDay(t) ==
    IF t[3] > 1 THEN <<t[1], t[2], t[3] - 1>>
    ELSE IF t[2] > 1 THEN <<t[1], t[2] - 1, MonthLength(t[1], t[2] - 1)>>
    ELSE <<t[1] - 1, 12, 31>>

\* the statements of the first electricity ledger of the result
StatementsOf(ledgers) ==
    ledgers[CHOOSE i \in DOMAIN ledgers :
              /\ ledgers[i].ledgerType = ELECTRICITY_LEDGER
              /\ \A j \in 1..(i - 1) : ledgers[j].ledgerType # ELECTRICITY_LEDGER].edges

\* C10: the reported start date is the calendar date of the consumption
\* start plus two hours, the reported end date that of the consumption end
\* minus one second: a start at 00:00:00 stays on its day, a start at
\* 23:00:00 rolls to the next day, an end at 00:00:00 rolls back to the
\* previous day.
C10_InvoiceDates ==
    (/\ pc = "idle"
     /\ ret.op = "account"
     /\ ret.kind = "return"
     /\ StatementsOf(resp.body) # <<>>)
        => LET inv  == StatementsOf(resp.body)[1]
               cs   == inv.consumptionStartDate
               ce   == inv.consumptionEndDate
               got  == ret.value.last_invoice
           IN  /\ got.start = IF cs.hh >= 22 THEN NextDay(<<cs.y, cs.m, cs.d>>)
                              ELSE <<cs.y, cs.m, cs.d>>
               /\ got.end = IF ce.hh = 0 /\ ce.mi = 0 /\ ce.ss = 0
                            THEN PrevDay(<<ce.y, ce.m, ce.d>>)
                            ELSE <<ce.y, ce.m, ce.d>>
               /\ cs = DateTimeStr(2024, 1, 1, 0, 0, 0) => got.start = <<2024, 1, 1>>
               /\ cs = DateTimeStr(2024, 1, 1, 23, 0, 0) => got.start = <<2024, 1, 2>>
               /\ ce = DateTimeStr(2024, 2, 1, 0, 0, 0) => got.end = <<2024, 1, 31>>

C10_Witness ==
    /\ pc = "idle"
    /\ ret.op = "account"
    /\ ret.kind = "return"
    /\ StatementsOf(resp.body) # <<>>
    /\ StatementsOf(resp.body)[1].consumptionStartDate = DateTimeStr(2024, 1, 1, 23, 0, 0)
    /\ ret.value.last_invoice.start = <<2024, 1, 2>>

=============================================================================
